---------------------------- MODULE Spec2Model ----------------------------
(***************************************************************************)
(* Model of the aibook summarizer: the batch loop of main (src/main.rs),   *)
(* the plan-then-summarize protocol of Summarizer (src/summarizer.rs) and  *)
(* the token chunker split_text_by_tokens (src/summarizer.rs).             *)
(***************************************************************************)
EXTENDS Integers, Sequences, FiniteSets, TLC

(***************************************************************************)
(* Bounds of the model.                                                    *)
(***************************************************************************)
\* longest text, in characters, handed to the chunker in SpecChunk
MaxTextLen == 3
\* largest max_tokens handed to the chunker in SpecChunk
MaxUnits == 3
\* most e-books on the command line (args.input)
MaxDocs == 2
\* most chapters read from one e-book
MaxChapters == 2
\* most iterations followed of a loop of split_text_by_tokens that cannot end
\* (max_tokens = 0)
MaxIterations == 3
\* the per-section token limit main passes to split_text_by_tokens
\* (2000 in src/main.rs:156), scaled to the chapter texts of the model
SectionTokenLimit == 2

Min(a, b) == IF a < b THEN a ELSE b

\* the sequences over S of length at most n
RECURSIVE SeqsUpTo(_, _)
SeqsUpTo(S, n) ==
    IF n = 0 THEN {<<>>}
    ELSE LET shorter == SeqsUpTo(S, n - 1)
         IN  shorter \cup {Append(t, c) : t \in {s \in shorter : Len(s) = n - 1}, c \in S}

(***************************************************************************)
(* The tokenizer (cl100k_base of tiktoken_rs), reduced to a byte-level BPE *)
(* with four tokens.  A text is a sequence of characters: "a" is a         *)
(* one-byte character, "u" a two-byte character that has no token of its   *)
(* own and is encoded as its two bytes.  Two adjacent "a" merge into one   *)
(* token.                                                                  *)
(***************************************************************************)
Chars == {"a", "u"}

\* bpe.encode_with_special_tokens(text)
RECURSIVE Encode(_)
Encode(text) ==
    IF text = <<>> THEN <<>>
    ELSE IF Head(text) = "u" THEN <<3, 4>> \o Encode(Tail(text))
    ELSE IF Len(text) >= 2 /\ text[2] = "a" THEN <<2>> \o Encode(Tail(Tail(text)))
    ELSE <<1>> \o Encode(Tail(text))

\* the bytes one token stands for
TokenBytes(tok) ==
    CASE tok = 1 -> <<"a">>
      [] tok = 2 -> <<"a", "a">>
      [] tok = 3 -> <<"u1">>
      [] tok = 4 -> <<"u2">>

RECURSIVE DecodeNative(_)
DecodeNative(toks) ==
    IF toks = <<>> THEN <<>> ELSE TokenBytes(Head(toks)) \o DecodeNative(Tail(toks))

\* String::from_utf8: the text of a byte sequence, or an error when a
\* two-byte character is cut
RECURSIVE FromUtf8(_)
FromUtf8(bytes) ==
    IF bytes = <<>> THEN [ok |-> TRUE, text |-> <<>>]
    ELSE IF Head(bytes) = "a"
         THEN LET r == FromUtf8(Tail(bytes))
              IN  [ok |-> r.ok, text |-> <<"a">> \o r.text]
    ELSE IF Head(bytes) = "u1" /\ Len(bytes) >= 2 /\ bytes[2] = "u2"
         THEN LET r == FromUtf8(Tail(Tail(bytes)))
              IN  [ok |-> r.ok, text |-> <<"u">> \o r.text]
    ELSE [ok |-> FALSE, text |-> <<>>]

\* bpe.decode(tokens): Err when the bytes are not valid UTF-8
Decode(toks) == FromUtf8(DecodeNative(toks))

(***************************************************************************)
(* split_text_by_tokens (src/summarizer.rs:72-87).                         *)
(***************************************************************************)
SliceEndPastLimit(start, max_tokens, n) == Min(start + max_tokens + 1, n)

\* let end = usize::min(start + max_tokens, tokens.len());
SliceEnd(start, max_tokens, n) == Min(start + max_tokens, n)

NextStartSkipsOne(end) == end + 1

\* start = end;
NextStart(end) == end

LoopInitWithEmptySection ==
    [start |-> 0, sections |-> << <<>> >>, slices |-> << <<>> >>, pc |-> "loop"]

\* the state of the loop before its first iteration
LoopInit == [start |-> 0, sections |-> <<>>, slices |-> <<>>, pc |-> "loop"]

\* while start < tokens.len()
LoopGuard(tokens, st) == st.pc = "loop" /\ st.start < Len(tokens)

\* one iteration of the loop; decode(..).unwrap() panics on an Err.
\* slices records the section_tokens of every iteration.
LoopBody(tokens, max_tokens, st) ==
    LET end == SliceEnd(st.start, max_tokens, Len(tokens))
        section_tokens == SubSeq(tokens, st.start + 1, end)
        decoded == Decode(section_tokens)
    IN  IF decoded.ok
        THEN [start |-> NextStart(end),
              sections |-> Append(st.sections, decoded.text),
              slices |-> Append(st.slices, section_tokens),
              pc |-> "loop"]
        ELSE [st EXCEPT !.pc = "panicked"]

RECURSIVE RunLoop(_, _, _)
RunLoop(tokens, max_tokens, st) ==
    IF LoopGuard(tokens, st) THEN RunLoop(tokens, max_tokens, LoopBody(tokens, max_tokens, st))
    ELSE st

\* the whole function, for max_tokens >= 1: the sections, or a panic
split_text_by_tokens(text, max_tokens) ==
    LET st == RunLoop(Encode(text), max_tokens, LoopInit)
    IN  [ok |-> st.pc = "loop", sections |-> st.sections]


(***************************************************************************)
(* The summary plan (src/main.rs:124-129).  A plan is a sequence of        *)
(* characters; "#" is the heading mark, " " is whitespace.                 *)
(***************************************************************************)
\* str::split("##"): the pieces between the non-overlapping matches, left to right
RECURSIVE SplitOnHeading(_, _)
SplitOnHeading(s, piece) ==
    IF s = <<>> THEN <<piece>>
    ELSE IF Len(s) >= 2 /\ s[1] = "#" /\ s[2] = "#"
         THEN <<piece>> \o SplitOnHeading(Tail(Tail(s)), <<>>)
    ELSE SplitOnHeading(Tail(s), Append(piece, Head(s)))

\* the white space of the texts of the model
Whitespace == {" ", "\n"}

RECURSIVE TrimStart(_)
TrimStart(s) == IF s # <<>> /\ Head(s) \in Whitespace THEN TrimStart(Tail(s)) ELSE s

RECURSIVE TrimEnd(_)
TrimEnd(s) ==
    IF s # <<>> /\ s[Len(s)] \in Whitespace THEN TrimEnd(SubSeq(s, 1, Len(s) - 1)) ELSE s

\* str::trim
Trim(s) == TrimEnd(TrimStart(s))

\* plan.split("##").skip(1).map(|s| format!("##{}", s.trim())).collect()
PlanSections(plan) ==
    LET pieces == SplitOnHeading(plan, <<>>)
    IN  [i \in 1..(Len(pieces) - 1) |-> <<"#", "#">> \o Trim(pieces[i + 1])]

\* plan_sections.get(index).cloned().unwrap_or_default(), index 0-based
ChapterPlan(plan_sections, index) ==
    IF index + 1 <= Len(plan_sections) THEN plan_sections[index + 1] ELSE <<>>

(***************************************************************************)
(* Inputs of a run.                                                        *)
(***************************************************************************)
\* the replies of the completion service to the plan request
PlanTexts ==
    { <<>>, <<" ">>, <<"x">>, <<"#", "#", "x">>,
      <<"#", "#", "x", " ", "#", "#", "x">> }

\* the chapter texts read_ebook can return
ChapterTexts ==
    { <<>>, <<"a">>, <<"u", "a", "a", "a">>, <<"a", "u">>, <<"u", "u">> }

\* the chapter lists of an e-book
Books == SeqsUpTo(ChapterTexts, MaxChapters)

\* the chapters_processed sets a ProcessingState file left by an earlier
\* run can hold for a book of n chapters (0-based chapter indices)
PersistedStates(n) == {P \in {{}, {0}, {0, 2}} : P \subseteq 0..(n - 1)}

VARIABLES
    split,               \* the call of split_text_by_tokens under test (SpecChunk)
    planCall,            \* the plan split under test (SpecPlan)
    parse,               \* the call of parse_response under test (SpecParse)
    input,               \* args.input: the number of e-books of the batch
    doc,                 \* the e-book main's loop is at (1-based, 0 before the first)
    mainPc,              \* where main is
    chapters,            \* the chapters of the current e-book
    chapters_processed,  \* the persisted ProcessingState of the current e-book
    plan,                \* the plan text the service returned
    plan_sections,       \* the plan split at its level-2 headings
    tasks,               \* one record per spawned chapter worker, in spawn order
    pb,                  \* the position of the progress bar
    final_summary,       \* the chapter contents pushed to the final summary
    saved                \* the e-books whose summary file was written

vars == <<split, planCall, parse, input, doc, mainPc, chapters, chapters_processed, plan,
          plan_sections, tasks, pb, final_summary, saved>>

mainVars == <<input, doc, mainPc, chapters, chapters_processed, plan,
              plan_sections, tasks, pb, final_summary, saved>>

NoPlan == <<"-">>

\* no plan split and no parse_response call under test
IdlePlanCall == [plan |-> <<>>, plan_sections |-> <<>>, chapter_plans |-> <<>>, pc |-> "idle"]

IdleParse ==
    [content |-> <<>>, sections |-> <<>>, next |-> 1, summary |-> <<>>,
     keywords |-> <<>>, glossary |-> <<>>, references |-> <<>>,
     additional_resources |-> <<>>, pc |-> "idle"]

(***************************************************************************)
(* SpecChunk: split_text_by_tokens on every text and limit of the bounds,  *)
(* one loop iteration per step.                                            *)
(***************************************************************************)
IdleMain ==
    /\ input = 0 /\ doc = 0 /\ mainPc = "idle" /\ chapters = <<>>
    /\ chapters_processed = {} /\ plan = NoPlan /\ plan_sections = <<>>
    /\ tasks = <<>> /\ pb = 0 /\ final_summary = <<>> /\ saved = {}

InitChunk ==
    /\ \E text \in SeqsUpTo(Chars, MaxTextLen), max_tokens \in 0..MaxUnits :
          split = [text |-> text, max_tokens |-> max_tokens,
                   tokens |-> Encode(text), st |-> LoopInit]
    /\ planCall = IdlePlanCall
    /\ parse = IdleParse
    /\ IdleMain

\* one iteration of the while loop; with max_tokens = 0 the loop does not
\* end, and its first MaxIterations iterations are followed
ChunkIterate ==
    /\ LoopGuard(split.tokens, split.st)
    /\ split.max_tokens = 0 => Len(split.st.sections) < MaxIterations
    /\ split' = [split EXCEPT !.st = LoopBody(split.tokens, split.max_tokens, split.st)]
    /\ UNCHANGED <<mainVars, planCall, parse>>

\* the loop guard fails and the function returns sections
ChunkReturn ==
    /\ split.st.pc = "loop"
    /\ ~LoopGuard(split.tokens, split.st)
    /\ split' = [split EXCEPT !.st.pc = "returned"]
    /\ UNCHANGED <<mainVars, planCall, parse>>

NextChunk == ChunkIterate \/ ChunkReturn

SpecChunk == InitChunk /\ [][NextChunk]_vars


RECURSIVE Flatten(_)
Flatten(ss) == IF ss = <<>> THEN <<>> ELSE Head(ss) \o Flatten(Tail(ss))

\* C9: every Section the chunker has produced is the decoded text of a slice
\* of the text's token sequence that holds at most max_tokens tokens.
C9_SectionWithinLimit ==
    \A k \in 1..Len(split.st.sections) :
        /\ Len(split.st.slices[k]) <= split.max_tokens
        /\ Decode(split.st.slices[k]) = [ok |-> TRUE, text |-> split.st.sections[k]]

\* a call that returned several Sections, one of them filled to the limit
C9_Witness ==
    /\ split.st.pc = "returned"
    /\ Len(split.st.sections) >= 2
    /\ Len(split.tokens) > split.max_tokens
    /\ \E k \in 1..Len(split.st.slices) : Len(split.st.slices[k]) = split.max_tokens

C15_ChunkerEdgeCases ==
    /\ split.text = <<>> =>
          split.st.pc # "panicked" /\ split.st.sections = <<>>
    /\ (split.text # <<>> /\ Len(split.tokens) <= split.max_tokens) =>
          /\ split.st.pc # "panicked"
          /\ split.st.pc = "returned" => split.st.sections = <<split.text>>

\* a call that returned a text of several characters as its one Section
C15_Witness ==
    /\ split.st.pc = "returned"
    /\ Len(split.text) >= 2
    /\ Len(split.tokens) <= split.max_tokens
    /\ split.st.sections = <<split.text>>

\* n / m rounded up, for m >= 1
Ceil(n, m) == (n + m - 1) \div m

\* C16: with max_tokens >= 1 every iteration advances start, and the loop
\* ends by returning after exactly ceil(n / max_tokens) iterations, n the
\* number of tokens; with max_tokens = 0 and a non-empty text it never ends.
C16_ChunkerTermination ==
    /\ split.max_tokens >= 1 =>
          /\ split.st.start >= Len(split.st.slices)
          /\ split.st.pc # "loop" =>
                /\ split.st.pc = "returned"
                /\ Len(split.st.slices) = Ceil(Len(split.tokens), split.max_tokens)
    /\ (split.max_tokens = 0 /\ split.tokens # <<>>) =>
          split.st.pc = "loop" /\ split.st.start = 0

(***************************************************************************)
(* Spec: main (src/main.rs:84-235) on a batch of e-books.  The steps of    *)
(* main and of the chapter workers are cut at their await points.          *)
(*                                                                         *)
(* A worker record holds the locals of one spawned task: its sections, its *)
(* chapter_plan, the section it is at (sec, 1-based), its chapter_summary  *)
(* (the summary of section i is written i), and two history fields: calls, *)
(* the replies of its summarize_with_plan calls in order, and done_at, the *)
(* progress-bar position its pb.inc(1) produced.                           *)
(***************************************************************************)
IdleSplit == [text |-> <<>>, max_tokens |-> 1, tokens |-> <<>>, st |-> LoopInit]

Init ==
    /\ split = IdleSplit
    /\ planCall = IdlePlanCall
    /\ parse = IdleParse
    /\ input \in 0..MaxDocs
    /\ doc = 0
    /\ mainPc = "next_doc"
    /\ chapters = <<>>
    /\ chapters_processed = {}
    /\ plan = NoPlan
    /\ plan_sections = <<>>
    /\ tasks = <<>>
    /\ pb = 0
    /\ final_summary = <<>>
    /\ saved = {}

\* for input_path in &args.input, up to the await of generate_summary_plan:
\* the directories are created and the e-book is read
ReadEbook ==
    /\ mainPc = "next_doc"
    /\ doc < input
    /\ doc' = doc + 1
    /\ \E book \in Books :
          /\ chapters' = book
          /\ chapters_processed' \in PersistedStates(Len(book))
    /\ mainPc' = "plan"
    /\ UNCHANGED <<split, planCall, parse, input, plan, plan_sections, tasks, pb, final_summary, saved>>

\* fs::create_dir_all(..)? or ebook::read_ebook(..)? returns the error from main
ReadEbookFails ==
    /\ mainPc = "next_doc"
    /\ doc < input
    /\ doc' = doc + 1
    /\ mainPc' = "exit_err"
    /\ UNCHANGED <<split, planCall, parse, input, chapters, chapters_processed, plan,
                   plan_sections, tasks, pb, final_summary, saved>>

\* generate_summary_plan(&toc).await? with an Err from send_request
PlanFails ==
    /\ mainPc = "plan"
    /\ mainPc' = "exit_err"
    /\ UNCHANGED <<split, planCall, parse, input, doc, chapters, chapters_processed, plan,
                   plan_sections, tasks, pb, final_summary, saved>>

\* generate_summary_plan returns Ok(text), whatever the text; the plan is
\* split and the progress bar created
PlanReturns ==
    /\ mainPc = "plan"
    /\ \E text \in PlanTexts :
          /\ plan' = text
          /\ plan_sections' = PlanSections(text)
    /\ pb' = 0
    /\ mainPc' = "spawn"
    /\ UNCHANGED <<split, planCall, parse, input, doc, chapters, chapters_processed, tasks,
                   final_summary, saved>>

SpawnEnabledBeforePlan == mainPc \in {"plan", "spawn"}

\* the for loop over chapters starts after the plan was awaited and split
SpawnEnabled == mainPc = "spawn"

\* the locals a task is spawned with (index 0-based)
NewWorker(index, sections) ==
    [pc |-> "spawned",
     sections |-> sections,
     chapter_plan |-> ChapterPlan(plan_sections, index),
     sec |-> 0,
     chapter_summary |-> <<>>,
     calls |-> <<>>,
     done_at |-> 0]

\* one iteration of for (index, chapter) in chapters.into_iter().enumerate():
\* the chapter is split and its task spawned; a panic of
\* split_text_by_tokens ends the process
SpawnChapter ==
    /\ SpawnEnabled
    /\ Len(tasks) < Len(chapters)
    /\ LET index == Len(tasks)
           r == split_text_by_tokens(chapters[index + 1], SectionTokenLimit)
       IN  IF r.ok
           THEN /\ tasks' = Append(tasks, NewWorker(index, r.sections))
                /\ UNCHANGED mainPc
           ELSE /\ mainPc' = "panicked"
                /\ UNCHANGED tasks
    /\ UNCHANGED <<split, planCall, parse, input, doc, chapters, chapters_processed, plan,
                   plan_sections, pb, final_summary, saved>>

\* the workers run while main runs; they end with the process
Running == mainPc \notin {"panicked", "exit_err", "exit_ok"}

\* pb.inc(1) and the task's return
Finished(w) == [w EXCEPT !.pc = "finished", !.done_at = pb + 1]

\* the task starts: it sends the request of its first section, or, with no
\* section, finishes at once
WorkerStart(c) ==
    /\ Running
    /\ tasks[c].pc = "spawned"
    /\ IF tasks[c].sections = <<>>
       THEN /\ tasks' = [tasks EXCEPT ![c] = Finished(@)]
            /\ pb' = pb + 1
       ELSE /\ tasks' = [tasks EXCEPT ![c].pc = "calling", ![c].sec = 1]
            /\ UNCHANGED pb
    /\ UNCHANGED <<split, planCall, parse, input, doc, mainPc, chapters, chapters_processed,
                   plan, plan_sections, final_summary, saved>>

OnErrorPushesAnyway(w) == [w EXCEPT !.chapter_summary = Append(@, w.sec)]

\* Err(e) => error!("Error summarizing a section: {}", e)
OnError(w) == w

OnOkPrepends(w) == [w EXCEPT !.chapter_summary = <<w.sec>> \o @]

\* Ok(..) => chapter_summary.push(highlighted_summary)
OnOk(w) == [w EXCEPT !.chapter_summary = Append(@, w.sec)]

\* summarize_with_plan(&section, &chapter_plan).await returns Ok or Err; the
\* match handles it, and the loop sends the next section's request or ends
CallReturns(c, ok) ==
    /\ Running
    /\ tasks[c].pc = "calling"
    /\ LET logged == [tasks[c] EXCEPT !.calls = Append(@, [section |-> tasks[c].sec, ok |-> ok])]
           handled == IF ok THEN OnOk(logged) ELSE OnError(logged)
       IN  IF handled.sec < Len(handled.sections)
           THEN /\ tasks' = [tasks EXCEPT ![c] = [handled EXCEPT !.sec = @ + 1]]
                /\ UNCHANGED pb
           ELSE /\ tasks' = [tasks EXCEPT ![c] = Finished(handled)]
                /\ pb' = pb + 1
    /\ UNCHANGED <<split, planCall, parse, input, doc, mainPc, chapters, chapters_processed,
                   plan, plan_sections, final_summary, saved>>

\* format_section(&chapter_title, &combined_summary, ..) of task c
SectionContent(c) == [chapter |-> c, summary |-> tasks[c].chapter_summary]

ResultsInCompletionOrder(n) ==
    [i \in 1..n |-> CHOOSE c \in 1..n : tasks[c].done_at = i]

\* join_all(tasks) yields the results in the order of tasks
Results(n) == [i \in 1..n |-> i]

\* the chapter contents pushed to final_summary by for result in results
FinalSummary ==
    LET results == Results(Len(tasks))
    IN  [i \in 1..Len(tasks) |-> SectionContent(results[i])]

\* the loop over chapters is over, join_all(tasks).await returns, the final
\* summary is built, and fs::write(..)? saves it or returns its error from main
JoinAll ==
    /\ mainPc = "spawn"
    /\ Len(tasks) = Len(chapters)
    /\ \A c \in 1..Len(tasks) : tasks[c].pc = "finished"
    /\ final_summary' = FinalSummary
    /\ \E written \in BOOLEAN :
          IF written
          THEN saved' = saved \cup {doc} /\ mainPc' = "saved"
          ELSE saved' = saved /\ mainPc' = "exit_err"
    /\ UNCHANGED <<split, planCall, parse, input, doc, chapters, chapters_processed, plan,
                   plan_sections, tasks, pb>>

\* the summary is saved and the iteration ends: the locals of the loop body
\* are dropped
EndIteration ==
    /\ mainPc = "saved"
    /\ chapters' = <<>>
    /\ chapters_processed' = {}
    /\ plan' = NoPlan
    /\ plan_sections' = <<>>
    /\ tasks' = <<>>
    /\ pb' = 0
    /\ final_summary' = <<>>
    /\ mainPc' = "next_doc"
    /\ UNCHANGED <<split, planCall, parse, input, doc, saved>>

\* the loop over args.input is over: Ok(())
Finish ==
    /\ mainPc = "next_doc"
    /\ doc = input
    /\ mainPc' = "exit_ok"
    /\ UNCHANGED <<split, planCall, parse, input, doc, chapters, chapters_processed, plan,
                   plan_sections, tasks, pb, final_summary, saved>>

Next ==
    \/ ReadEbook
    \/ ReadEbookFails
    \/ PlanFails
    \/ PlanReturns
    \/ SpawnChapter
    \/ \E c \in 1..Len(tasks) : WorkerStart(c)
    \/ \E c \in 1..Len(tasks), ok \in BOOLEAN : CallReturns(c, ok)
    \/ JoinAll
    \/ EndIteration
    \/ Finish

Spec == Init /\ [][Next]_vars


(***************************************************************************)
(* Claims about main.                                                      *)
(***************************************************************************)
\* the calls of worker w for its section i
CallsFor(w, i) == {k \in 1..Len(w.calls) : w.calls[k].section = i}

\* the sections of worker w that got an Ok reply, in section order
RECURSIVE OkSections(_)
OkSections(calls) ==
    IF calls = <<>> THEN <<>>
    ELSE IF Head(calls).ok THEN <<Head(calls).section>> \o OkSections(Tail(calls))
    ELSE OkSections(Tail(calls))

\* the workers started and not yet finished
InFlight == {c \in 1..Len(tasks) : tasks[c].pc \in {"spawned", "calling"}}

\* the summary file of the current e-book was written
Assembled == mainPc = "saved"

\* C1: a run that starts with a persisted chapters_processed set issues no
\* summarization call for the chapters whose index is in the set, and the
\* final output still holds every chapter in index order.
C1_Resumability ==
    /\ \A c \in 1..Len(tasks) :
          (c - 1) \in chapters_processed =>
              tasks[c].pc # "calling" /\ tasks[c].calls = <<>>
    /\ Assembled => \A c \in 1..Len(chapters) : final_summary[c].chapter = c

\* C2: while the plan request is in flight no chapter worker exists, and
\* whenever a worker exists the plan has been returned and split, and the
\* worker holds its section of that plan.
C2_PlanBarrier ==
    /\ mainPc = "plan" => tasks = <<>>
    /\ tasks # <<>> =>
          /\ plan # NoPlan
          /\ plan_sections = PlanSections(plan)
          /\ \A c \in 1..Len(tasks) :
                tasks[c].chapter_plan = ChapterPlan(PlanSections(plan), c - 1)

\* a worker's call is in flight under a plan that has sections
C2_Witness ==
    /\ plan_sections # <<>>
    /\ \E c \in 1..Len(tasks) : tasks[c].pc = "calling" /\ tasks[c].chapter_plan # <<>>

\* C3: the written final summary holds the content of every chapter, chapter
\* i at position i, whatever the order the workers finished in.
C3_OutputOrder ==
    Assembled =>
        /\ Len(final_summary) = Len(chapters)
        /\ \A c \in 1..Len(chapters) : final_summary[c] = SectionContent(c)
        /\ \A i, j \in 1..Len(final_summary) :
              i < j => final_summary[i].chapter < final_summary[j].chapter

\* two chapters with summaries were written, the second finished first
C3_Witness ==
    /\ Assembled
    /\ Len(tasks) >= 2
    /\ tasks[2].done_at < tasks[1].done_at
    /\ tasks[1].chapter_summary # <<>>
    /\ tasks[2].chapter_summary # <<>>

\* a cap below the largest book of the model
WorkerCap == MaxChapters - 1

\* C4: the number of chapter workers in flight never exceeds a cap that does
\* not grow with the number of chapters of the book.
C4_BoundedConcurrency == Cardinality(InFlight) <= WorkerCap

\* the attempt budget of a section (the default of MAX_RETRIES)
max_attempts == 3

\* C5: once a worker is past a section all of whose calls failed, it has
\* made exactly max_attempts calls for that section.
C5_RetryExhaustion ==
    \A c \in 1..Len(tasks) :
        \A i \in 1..Len(tasks[c].sections) :
            ( /\ tasks[c].pc = "finished" \/ tasks[c].sec > i
              /\ \A k \in CallsFor(tasks[c], i) : ~tasks[c].calls[k].ok )
            => Cardinality(CallsFor(tasks[c], i)) = max_attempts

\* C6: whichever calls of a chapter fail, its worker finishes when its last
\* section is answered, its summary holds exactly the sections answered Ok,
\* in section order, the progress bar has advanced once per finished
\* worker, and the written final summary holds the chapter with that summary.
C6_SectionFailureIsolation ==
    /\ \A c \in 1..Len(tasks) :
          /\ tasks[c].chapter_summary = OkSections(tasks[c].calls)
          /\ tasks[c].pc = "finished" <=>
                (tasks[c].pc # "spawned" /\ Len(tasks[c].calls) = Len(tasks[c].sections))
          /\ tasks[c].pc = "finished" => tasks[c].done_at \in 1..pb
    /\ pb = Cardinality({c \in 1..Len(tasks) : tasks[c].pc = "finished"})
    /\ Assembled =>
          \A c \in 1..Len(chapters) :
              final_summary[c] = [chapter |-> c, summary |-> OkSections(tasks[c].calls)]

\* a written chapter of two sections, the first failed and the second not
C6_Witness ==
    /\ Assembled
    /\ \E c \in 1..Len(tasks) :
          /\ Len(tasks[c].sections) = 2
          /\ ~tasks[c].calls[1].ok
          /\ tasks[c].calls[2].ok
          /\ final_summary[c].summary = <<2>>

\* C7: when main ends, every e-book of the batch has been reached: an error
\* on one e-book does not keep the later ones from being processed.
C7_BatchContinuation ==
    mainPc \in {"exit_ok", "exit_err", "panicked"} => doc = input

\* only whitespace
IsBlank(s) == \A k \in 1..Len(s) : s[k] \in Whitespace

\* C8: after a blank plan reply main has failed and no worker was started.
C8_EmptyPlanFatal ==
    (plan # NoPlan /\ IsBlank(plan)) => (mainPc = "exit_err" /\ tasks = <<>>)


MaxPlanLen == 4

\* the characters of a plan: the heading mark, a letter, white space
PlanChars == {"#", "x", " ", "\n"}

\* "## x", "### x", "## x" on three lines: two level-2 headings, the first
\* with a level-3 heading under it
PlanWithSubheading ==
    <<"#", "#", " ", "x", "\n", "#", "#", "#", " ", "x", "\n", "#", "#", " ", "x">>

InitPlan ==
    /\ \E text \in SeqsUpTo(PlanChars, MaxPlanLen) \cup PlanTexts \cup {PlanWithSubheading} :
          planCall = [plan |-> text, plan_sections |-> <<>>,
                      chapter_plans |-> <<>>, pc |-> "split"]
    /\ split = IdleSplit
    /\ parse = IdleParse
    /\ IdleMain

\* let plan_sections: Vec<String> = plan.split("##")...collect()
SplitPlan ==
    /\ planCall.pc = "split"
    /\ planCall' = [planCall EXCEPT !.plan_sections = PlanSections(planCall.plan),
                                    !.pc = "chapters"]
    /\ UNCHANGED <<mainVars, split, parse>>

\* let chapter_plan = plan_sections.get(index).cloned().unwrap_or_default(),
\* for index = 0, 1, ... in the loop over the chapters
TakeChapterPlan ==
    /\ planCall.pc = "chapters"
    /\ Len(planCall.chapter_plans) < MaxChapters + 1
    /\ planCall' = [planCall EXCEPT !.chapter_plans =
           Append(@, ChapterPlan(planCall.plan_sections, Len(planCall.chapter_plans)))]
    /\ UNCHANGED <<mainVars, split, parse>>

NextPlan == SplitPlan \/ TakeChapterPlan

SpecPlan == InitPlan /\ [][NextPlan]_vars

\* the lines of a text
RECURSIVE Lines(_, _)
Lines(s, line) ==
    IF s = <<>> THEN <<line>>
    ELSE IF Head(s) = "\n" THEN <<line>> \o Lines(Tail(s), <<>>)
    ELSE Lines(Tail(s), Append(line, Head(s)))

\* a line that is a level-2 heading: after optional spaces, exactly two "#"
IsLevel2Heading(line) ==
    LET l == TrimStart(line)
    IN  /\ Len(l) >= 2 /\ l[1] = "#" /\ l[2] = "#"
        /\ Len(l) >= 3 => l[3] # "#"

Level2Headings(text) ==
    LET ls == Lines(text, <<>>)
    IN  Cardinality({k \in 1..Len(ls) : IsLevel2Heading(ls[k])})

\* C12: the plan is split into one PlanSection per level-2 heading, and every
\* chapter whose index is not below the number of PlanSections gets the
\* empty PlanSection.
C12_PlanSectionAlignment ==
    planCall.pc = "chapters" =>
        /\ Len(planCall.plan_sections) = Level2Headings(planCall.plan)
        /\ \A k \in 1..Len(planCall.chapter_plans) :
              (k - 1) >= Len(planCall.plan_sections) => planCall.chapter_plans[k] = <<>>


(***************************************************************************)
(* parse_response (src/summarizer.rs:89-149).  A reply is a sequence of    *)
(* characters; a label ("Keywords:", "About the Author", ...) and a word   *)
(* are written as one character each.                                      *)
(***************************************************************************)
\* content.split("\n\n"): the pieces between the non-overlapping matches
RECURSIVE SplitOnBlankLine(_, _)
SplitOnBlankLine(s, piece) ==
    IF s = <<>> THEN <<piece>>
    ELSE IF Len(s) >= 2 /\ s[1] = "\n" /\ s[2] = "\n"
         THEN <<piece>> \o SplitOnBlankLine(Tail(Tail(s)), <<>>)
    ELSE SplitOnBlankLine(Tail(s), Append(piece, Head(s)))

\* split(',')
RECURSIVE SplitOnComma(_, _)
SplitOnComma(s, piece) ==
    IF s = <<>> THEN <<piece>>
    ELSE IF Head(s) = "," THEN <<piece>> \o SplitOnComma(Tail(s), <<>>)
    ELSE SplitOnComma(Tail(s), Append(piece, Head(s)))

\* section.starts_with(label)
StartsWith(section, label) == section # <<>> /\ Head(section) = label

\* section.trim_start_matches(label): every leading repetition is removed
RECURSIVE TrimStartMatches(_, _)
TrimStartMatches(section, label) ==
    IF StartsWith(section, label) THEN TrimStartMatches(Tail(section), label) ELSE section

\* .map(|s| s.trim().to_string())
TrimAll(pieces) == [k \in 1..Len(pieces) |-> Trim(pieces[k])]

IsReferencesCitationsOnly(section) == StartsWith(section, "Citations and References:")

\* section.starts_with("Citations and References:") || section.starts_with("References:")
IsReferences(section) ==
    \/ StartsWith(section, "Citations and References:")
    \/ StartsWith(section, "References:")

\* the labels of the sections to skip
AdministrativeLabels ==
    {"Dedication", "Foreword", "About the Author", "Author Biography", "Preface",
     "Acknowledgments"}

IsAdministrative(section) == \E label \in AdministrativeLabels : StartsWith(section, label)

\* the locals of parse_response before the loop
ParseInit(content) ==
    [content |-> content, sections |-> SplitOnBlankLine(content, <<>>), next |-> 1,
     summary |-> <<>>, keywords |-> <<>>, glossary |-> <<>>, references |-> <<>>,
     additional_resources |-> <<>>, pc |-> "loop"]

\* the body of for section in sections
ParseSection(st, section) ==
    IF StartsWith(section, "Keywords:")
    THEN [st EXCEPT !.keywords =
             @ \o TrimAll(SplitOnComma(TrimStartMatches(section, "Keywords:"), <<>>))]
    ELSE IF StartsWith(section, "Glossary:")
    THEN [st EXCEPT !.glossary = Append(@, Trim(TrimStartMatches(section, "Glossary:")))]
    ELSE IF IsReferences(section)
    THEN [st EXCEPT !.references =
             Append(@, Trim(TrimStartMatches(section, "Citations and References:")))]
    ELSE IF StartsWith(section, "Additional Resources:")
    THEN [st EXCEPT !.additional_resources =
             Append(@, Trim(TrimStartMatches(section, "Additional Resources:")))]
    ELSE IF IsAdministrative(section)
    THEN st
    ELSE [st EXCEPT !.summary = @ \o section \o <<"\n">>]

\* the returned tuple: summary.trim() and the four lists
ParseResult(st) == [st EXCEPT !.summary = Trim(@), !.pc = "returned"]

(***************************************************************************)
(* SpecParse: parse_response on every reply of the bounds and on the       *)
(* replies of ReplyExamples, one loop iteration per step.                  *)
(***************************************************************************)
\* longest reply, in characters, of SpecParse
MaxReplyLen == 4

ReplyChars ==
    {"Keywords:", "Glossary:", "References:", "Citations and References:",
     "Additional Resources:", "About the Author", "w", ",", " ", "\n"}

\* "Keywords: a, b, c\n\nSome narrative text."
KeywordsReply ==
    <<"Keywords:", " ", "a", ",", " ", "b", ",", " ", "c", "\n", "\n",
      "Some narrative text.">>

\* "About the Author\n\nBio text.\n\nReal summary."
AboutTheAuthorReply ==
    <<"About the Author", "\n", "\n", "Bio text.", "\n", "\n", "Real summary.">>

\* a narrative, a glossary, a references and a resources block, a dedication,
\* a second narrative
MixedReply ==
    <<"w", "\n", "\n", "Glossary:", " ", "g", "\n", "\n", "References:", " ", "r",
      "\n", "\n", "Additional Resources:", " ", "s", "\n", "\n", "Dedication", " ",
      "d", "\n", "\n", "v">>

ReplyExamples == {KeywordsReply, AboutTheAuthorReply, MixedReply}

InitParse ==
    /\ \E content \in SeqsUpTo(ReplyChars, MaxReplyLen) \cup ReplyExamples :
          parse = [ParseInit(content) EXCEPT !.sections = <<>>, !.pc = "start"]
    /\ split = IdleSplit
    /\ planCall = IdlePlanCall
    /\ IdleMain

\* let sections: Vec<&str> = content.split("\n\n").collect(), and the locals
ParseSplit ==
    /\ parse.pc = "start"
    /\ parse' = ParseInit(parse.content)
    /\ UNCHANGED <<mainVars, split, planCall>>

\* one iteration of for section in sections
ParseIterate ==
    /\ parse.pc = "loop"
    /\ parse.next <= Len(parse.sections)
    /\ parse' = [ParseSection(parse, parse.sections[parse.next]) EXCEPT !.next = @ + 1]
    /\ UNCHANGED <<mainVars, split, planCall>>

\* the loop is over and the tuple is returned
ParseReturn ==
    /\ parse.pc = "loop"
    /\ parse.next > Len(parse.sections)
    /\ parse' = ParseResult(parse)
    /\ UNCHANGED <<mainVars, split, planCall>>

NextParse == ParseSplit \/ ParseIterate \/ ParseReturn

SpecParse == InitParse /\ [][NextParse]_vars


\* a character that is a label of parse_response
IsLabel(ch) ==
    \/ ch \in {"Keywords:", "Glossary:", "References:", "Citations and References:",
               "Additional Resources:"}
    \/ ch \in AdministrativeLabels

\* a block of narrative: it starts with a word
IsNarrative(block) ==
    block # <<>> /\ ~IsLabel(Head(block)) /\ Head(block) \notin Whitespace \cup {","}

\* a reply made of an administrative label, the body of that section and a
\* narrative block
IsAdministrativeSectionThenNarrative(content) ==
    LET blocks == SplitOnBlankLine(content, <<>>)
    IN  /\ Len(blocks) = 3
        /\ \E label \in AdministrativeLabels : blocks[1] = <<label>>
        /\ IsNarrative(blocks[2])
        /\ IsNarrative(blocks[3])

\* C13: of a reply made of an administrative label, the body of that section
\* and a narrative block, the returned summary is the narrative block only.
C13_AdministrativeSectionDropped ==
    (parse.pc = "returned" /\ IsAdministrativeSectionThenNarrative(parse.content)) =>
        parse.summary = Trim(SplitOnBlankLine(parse.content, <<>>)[3])

\* the destination the leading label of a block chooses
Destination(block) ==
    IF block = <<>> THEN "summary"
    ELSE IF Head(block) = "Keywords:" THEN "keywords"
    ELSE IF Head(block) = "Glossary:" THEN "glossary"
    ELSE IF Head(block) \in {"References:", "Citations and References:"} THEN "references"
    ELSE IF Head(block) = "Additional Resources:" THEN "additional_resources"
    ELSE IF Head(block) \in AdministrativeLabels THEN "dropped"
    ELSE "summary"

\* the blocks of the reply under test that go to dest, in their order
Routed(dest) ==
    SelectSeq(SplitOnBlankLine(parse.content, <<>>), LAMBDA b : Destination(b) = dest)

\* C14: every block of the reply goes to the one destination its leading
\* label chooses: the glossary, references and resources entries are the
\* blocks with those labels, in order; the keywords are the comma-separated,
\* trimmed pieces of the Keywords blocks; the blocks with an administrative
\* label are in no field; the summary is the unlabelled blocks in their
\* order.  "Keywords: a, b, c\n\nSome narrative text." yields the keywords
\* a, b, c and the summary "Some narrative text.".
C14_ParserRouting ==
    parse.pc = "returned" =>
        /\ parse.glossary =
              [k \in 1..Len(Routed("glossary")) |->
                  Trim(TrimStartMatches(Routed("glossary")[k], "Glossary:"))]
        /\ parse.references =
              [k \in 1..Len(Routed("references")) |->
                  Trim(TrimStartMatches(Routed("references")[k], "Citations and References:"))]
        /\ parse.additional_resources =
              [k \in 1..Len(Routed("additional_resources")) |->
                  Trim(TrimStartMatches(Routed("additional_resources")[k],
                                        "Additional Resources:"))]
        /\ parse.keywords =
              Flatten([k \in 1..Len(Routed("keywords")) |->
                  TrimAll(SplitOnComma(TrimStartMatches(Routed("keywords")[k], "Keywords:"),
                                       <<>>))])
        /\ parse.summary =
              Trim(Flatten([k \in 1..Len(Routed("summary")) |->
                  Routed("summary")[k] \o <<"\n">>]))
        /\ parse.content = KeywordsReply =>
              /\ parse.keywords = << <<"a">>, <<"b">>, <<"c">> >>
              /\ parse.summary = <<"Some narrative text.">>

\* the Keywords example was parsed
C14_Witness ==
    /\ parse.pc = "returned"
    /\ parse.content = KeywordsReply
    /\ parse.keywords = << <<"a">>, <<"b">>, <<"c">> >>
    /\ parse.summary = <<"Some narrative text.">>

=============================================================================
